---- MODULE Spec2Model ----
(***************************************************************************)
(* A model of baltic's format loaders (src/baltic/io.py) and date          *)
(* conversion utility (src/baltic/dates.py).                               *)
(*                                                                         *)
(* Text is modelled as a sequence of one-character strings, so that        *)
(* searching, splitting, joining, stripping and the regular expressions    *)
(* of the source are computed character by character.                      *)
(***************************************************************************)
EXTENDS Integers, Sequences, FiniteSets, TLC

VARIABLES
    fn,            \* the entry point being run
    pc,            \* position inside the entry point
    err,           \* the exception that ended the call, "none" otherwise
    file,          \* load_newick / load_nexus: the lines of the source (ids of sample lines)
    by_path,       \* isinstance(tree_path, str): the loader opens the source itself
    absolute_time, \* the absolute_time flag
    sort_branches, \* the sort_branches flag (load_json: sort)
    stats,         \* load_json: the stats flag
    handle,        \* "unopened", "open" or "closed"
    idx,           \* number of lines already consumed by the for loop
    ll,            \* the tree under construction (NoTree while ll is None)
    tip_flag,      \* load_nexus: inside a translate block
    tip_num,       \* load_nexus: the ntax value
    tips,          \* load_nexus: the translation table
    reported,      \* load_nexus: positions of the lines printed as not captured
    passes,        \* the tree passes run so far, in order
    calibrated,    \* the argument set_absolute_time was called with (NoResult if never)
    jt,            \* load_json: json_translation
    json_src,      \* load_json: how json_object is given
    doc,           \* load_json: the chosen document
    root_parent,   \* load_json: what the constructed root's parent is
    objects,       \* load_json: ll.objects
    cmap,          \* load_json: the colour map attached to the tree
    dd_date,       \* decimal_date / calendar_date: the date text
    dd_fmt,        \* decimal_date / calendar_date: the format
    dd_variable,   \* decimal_date: the variable flag
    dd_result,     \* what decimal_date returned or raised
    cal_result     \* what calendar_date returned or raised when applied to dd_result

ctlVars == <<fn, pc, err>>
textVars == <<file, by_path, absolute_time, handle, idx, ll, tip_flag, tip_num,
              tips, reported, calibrated>>
jsonVars == <<jt, json_src, doc, root_parent, objects, cmap, stats>>
dateVars == <<dd_date, dd_fmt, dd_variable, dd_result, cal_result>>
vars == <<ctlVars, textVars, jsonVars, dateVars, sort_branches, passes>>

\* ------------------------------------------------------------------ bounds

\* Longest source file (in lines) given to load_newick and load_nexus.
MaxLines == 3

\* ------------------------------------------------------------ text helpers

Digits == {"0", "1", "2", "3", "4", "5", "6", "7", "8", "9"}

UpperLetters == {"A", "B", "C", "D", "E", "F", "G", "H", "I", "J", "K", "L", "M",
                 "N", "O", "P", "Q", "R", "S", "T", "U", "V", "W", "X", "Y", "Z"}

LowerLetters == {"a", "b", "c", "d", "e", "f", "g", "h", "i", "j", "k", "l", "m",
                 "n", "o", "p", "q", "r", "s", "t", "u", "v", "w", "x", "y", "z"}

DigitVal(c) ==
    CASE c = "0" -> 0 [] c = "1" -> 1 [] c = "2" -> 2 [] c = "3" -> 3 [] c = "4" -> 4
      [] c = "5" -> 5 [] c = "6" -> 6 [] c = "7" -> 7 [] c = "8" -> 8 [] c = "9" -> 9

\* str.lower() on one character, for the upper-case letters the sample lines use.
LowerChar(c) ==
    CASE c = "T" -> "t" [] c = "R" -> "r" [] c = "E" -> "e" [] c = "A" -> "a"
      [] c = "N" -> "n" [] c = "S" -> "s" [] c = "L" -> "l" [] c = "D" -> "d"
      [] OTHER -> c

LowerStr(s) == [i \in 1..Len(s) |-> LowerChar(s[i])]

SetMax(S) == CHOOSE x \in S : \A y \in S : y <= x
SetMin(S) == CHOOSE x \in S : \A y \in S : x <= y

\* s[i:] of Python, for a 1-based i.
Tail_(s, i) == SubSeq(s, i, Len(s))

\* s.index(c) + 1, or 0 when c does not occur in s.
IndexOf(s, c) ==
    LET hits == {i \in 1..Len(s) : s[i] = c}
    IN  IF hits = {} THEN 0 ELSE SetMin(hits)

\* pat in s
Contains(s, pat) ==
    \E i \in 1..(Len(s) - Len(pat) + 1) : SubSeq(s, i, i + Len(pat) - 1) = pat

\* The last index j >= i - 1 with s[i..j] all in Class (a greedy character class).
RunEnd(s, i, Class) ==
    SetMax({j \in (i - 1)..Len(s) : \A k \in i..j : s[k] \in Class})

\* s.strip(c) for a one-character c.
Strip(s, c) ==
    LET keep == {i \in 1..Len(s) : s[i] # c}
    IN  IF keep = {} THEN <<>> ELSE SubSeq(s, SetMin(keep), SetMax(keep))

\* s.split(d) for a one-character d.
RECURSIVE Split(_, _)
Split(s, d) ==
    LET i == IndexOf(s, d)
    IN  IF i = 0 THEN <<s>>
        ELSE <<SubSeq(s, 1, i - 1)>> \o Split(Tail_(s, i + 1), d)

\* d.join(parts) for a one-character d.
RECURSIVE Join(_, _)
Join(d, parts) ==
    IF parts = <<>> THEN <<>>
    ELSE IF Len(parts) = 1 THEN parts[1]
    ELSE parts[1] \o <<d>> \o Join(d, Tail(parts))

\* parts[:-n] of Python.
DropLast(parts, n) ==
    IF Len(parts) <= n THEN <<>> ELSE SubSeq(parts, 1, Len(parts) - n)

\* int(s) for a string of digits.
RECURSIVE ToInt(_)
ToInt(s) ==
    IF s = <<>> THEN 0 ELSE 10 * ToInt(SubSeq(s, 1, Len(s) - 1)) + DigitVal(s[Len(s)])

\* ---------------------------------------------------------------- dates.py

IsLeap(y) == (y % 4 = 0) /\ ((y % 100 # 0) \/ (y % 400 = 0))

DaysInMonth(y, m) ==
    IF m = 2 THEN (IF IsLeap(y) THEN 29 ELSE 28)
    ELSE IF m \in {4, 6, 9, 11} THEN 30 ELSE 31

DaysInYear(y) == IF IsLeap(y) THEN 366 ELSE 365

RECURSIVE DaysBeforeMonth(_, _)
DaysBeforeMonth(y, m) ==
    IF m = 1 THEN 0 ELSE DaysBeforeMonth(y, m - 1) + DaysInMonth(y, m - 1)

\* How datetime.strptime's regular expression matches one directive at the head of
\* s: the lengths it tries, in the order of the alternatives of the directive's
\* pattern (%Y: \d\d\d\d, %m: 1[0-2]|0[1-9]|[1-9], %d: 3[01]|[12]\d|0[1-9]|[1-9]| [1-9]).
DirectiveLengths(dir, s) ==
    LET two == Len(s) >= 2 /\ s[1] \in Digits /\ s[2] \in Digits
        v2  == IF two THEN 10 * DigitVal(s[1]) + DigitVal(s[2]) ELSE 0
        one == Len(s) >= 1 /\ s[1] \in Digits /\ s[1] # "0"
    IN  CASE dir = "Y" ->
               IF Len(s) >= 4 /\ \A k \in 1..4 : s[k] \in Digits THEN <<4>> ELSE <<>>
          [] dir = "m" ->
               (IF two /\ v2 >= 1 /\ v2 <= 12 /\ s[1] \in {"0", "1"} THEN <<2>> ELSE <<>>)
               \o (IF one THEN <<1>> ELSE <<>>)
          [] dir = "d" ->
               (IF two /\ v2 >= 1 /\ v2 <= 31 THEN <<2>> ELSE <<>>)
               \o (IF one THEN <<1>> ELSE <<>>)
               \o (IF Len(s) >= 2 /\ s[1] = " " /\ s[2] \in Digits /\ s[2] # "0"
                   THEN <<2>> ELSE <<>>)
          [] OTHER -> <<>>

NoParse == [ok |-> FALSE, rest |-> <<>>, y |-> 0, m |-> 0, d |-> 0]

\* acc with the field of directive dir read from the first n characters of s.
WithField(acc, dir, s, n) ==
    LET txt == IF s[1] = " " THEN SubSeq(s, 2, n) ELSE SubSeq(s, 1, n)
    IN  CASE dir = "Y" -> [acc EXCEPT !.y = ToInt(txt)]
          [] dir = "m" -> [acc EXCEPT !.m = ToInt(txt)]
          [] OTHER     -> [acc EXCEPT !.d = ToInt(txt)]

FirstOk(r1, r2, r3) == IF r1.ok THEN r1 ELSE IF r2.ok THEN r2 ELSE r3

\* The match of the format's regular expression against a prefix of the date:
\* the alternatives of a directive are tried in order, and the first one after
\* which the rest of the format matches wins.
RECURSIVE ParsePrefix(_, _, _)
ParsePrefix(f, s, acc) ==
    IF f = <<>> THEN [acc EXCEPT !.ok = TRUE, !.rest = s]
    ELSE IF f[1] = "%" THEN
        IF Len(f) < 2 THEN NoParse
        ELSE LET lens == DirectiveLengths(f[2], s)
             IN  FirstOk(
                   IF Len(lens) < 1 THEN NoParse
                   ELSE ParsePrefix(Tail_(f, 3), Tail_(s, lens[1] + 1),
                                    WithField(acc, f[2], s, lens[1])),
                   IF Len(lens) < 2 THEN NoParse
                   ELSE ParsePrefix(Tail_(f, 3), Tail_(s, lens[2] + 1),
                                    WithField(acc, f[2], s, lens[2])),
                   IF Len(lens) < 3 THEN NoParse
                   ELSE ParsePrefix(Tail_(f, 3), Tail_(s, lens[3] + 1),
                                    WithField(acc, f[2], s, lens[3])))
    ELSE IF s # <<>> /\ s[1] = f[1] THEN ParsePrefix(Tail(f), Tail(s), acc)
    ELSE NoParse

\* datetime.strptime(date, fmt): fields that the format leaves out default to
\* 1900-01-01; text left over after the match and a day the month does not have
\* are both a ValueError.
Strptime(date, fmt) ==
    LET r == ParsePrefix(fmt, date, [ok |-> FALSE, rest |-> <<>>, y |-> 1900, m |-> 1, d |-> 1])
    IN  IF r.ok /\ r.rest = <<>> /\ r.y >= 1 /\ r.d <= DaysInMonth(r.y, r.m)
        THEN r
        ELSE NoParse

\* Values returned by the date functions. A decimal year is kept exact: the year,
\* the days elapsed since January 1 and the days of that year.
NumResult(y, n, d) == [kind |-> "num", y |-> y, n |-> n, d |-> d, s |-> <<>>]
StrResult(s) == [kind |-> "str", y |-> 0, n |-> 0, d |-> 1, s |-> s]
Raised(e) == [kind |-> e, y |-> 0, n |-> 0, d |-> 1, s |-> <<>>]
NoResult == Raised("none")

AlnumPercent == Digits \cup UpperLetters \cup LowerLetters \cup {"%"}

\* re.search("[^0-9A-Za-z%]", fmt): the position of the delimiter, 0 if None.
DelimiterPos(fmt) ==
    LET hits == {i \in 1..Len(fmt) : fmt[i] \notin AlnumPercent}
    IN  IF hits = {} THEN 0 ELSE SetMin(hits)

\* The format after the `variable` branch: "AttributeError" stands for the call
\* delimit.join(...) made while delimit is None.
TruncatedFormat(date, fmt, variable) ==
    LET p       == DelimiterPos(fmt)
        hasDel  == p # 0
        dateL   == IF hasDel THEN Len(Split(date, fmt[p])) ELSE 1
    IN  IF ~variable THEN [ok |-> TRUE, fmt |-> fmt]
        ELSE IF dateL = 2 THEN
            [ok |-> TRUE, fmt |-> Join(fmt[p], DropLast(Split(fmt, fmt[p]), 1))]
        ELSE IF dateL = 1 THEN
            IF hasDel
            THEN [ok |-> TRUE, fmt |-> Join(fmt[p], DropLast(Split(fmt, fmt[p]), 2))]
            ELSE [ok |-> FALSE, fmt |-> fmt]
        ELSE [ok |-> TRUE, fmt |-> fmt]

\* The fractional year of a parsed date (ValueError when strptime failed).
FractionalYear(a) ==
    IF ~a.ok THEN Raised("ValueError")
    ELSE NumResult(a.y, DaysBeforeMonth(a.y, a.m) + a.d - 1, DaysInYear(a.y))

ParseTruncated(date, t) ==
    IF ~t.ok THEN Raised("AttributeError") ELSE FractionalYear(Strptime(date, t.fmt))

decimal_date(date, fmt, variable) ==
    IF fmt = <<>> THEN StrResult(date)
    ELSE ParseTruncated(date, TruncatedFormat(date, fmt, variable))

\* calendar_date(timepoint, fmt): int(timepoint) and the subtraction run first;
\* the name dt is bound nowhere in dates.py, so evaluating dt.timedelta raises
\* NameError for every numeric timepoint.
calendar_date(timepoint, fmt) ==
    IF timepoint.kind = "str" THEN
        IF timepoint.s # <<>> /\ \A i \in 1..Len(timepoint.s) : timepoint.s[i] \in Digits
        THEN Raised("TypeError")
        ELSE Raised("ValueError")
    ELSE Raised("NameError")

\* ------------------------------------------------------------ sample input

\* '#x\n'
NewickComment ==
    <<"#", "x", "\n">>
\* '(A|2020-07-02,B);\n'
NewickDated ==
    <<"(", "A", "|", "2", "0", "2", "0", "-", "0", "7", "-", "0", "2", ",", "B", ")", ";", "\n">>
\* 'x(C,D);\n'
NewickPrefixed ==
    <<"x", "(", "C", ",", "D", ")", ";", "\n">>
\* '(F|2019-12-31,E|2021-01-01);\n'
NewickTwoDated ==
    <<"(", "F", "|", "2", "0", "1", "9", "-", "1", "2", "-", "3", "1", ",", "E", "|", "2", "0", "2", "1", "-", "0", "1", "-", "0", "1", ")", ";", "\n">>
\* '(G\n'
NewickUnclosed ==
    <<"(", "G", "\n">>
\* '(H|2020-13-01);\n'
NewickBadDate ==
    <<"(", "H", "|", "2", "0", "2", "0", "-", "1", "3", "-", "0", "1", ")", ";", "\n">>
\* '\tTranslate\n'
NexusTranslate ==
    <<"\t", "T", "r", "a", "n", "s", "l", "a", "t", "e", "\n">>
\* '\t1 A|2020-07-02,\n'
NexusUnquoted ==
    <<"\t", "1", " ", "A", "|", "2", "0", "2", "0", "-", "0", "7", "-", "0", "2", ",", "\n">>
\* "\t2 'B',\n"
NexusSingleQuoted ==
    <<"\t", "2", " ", "'", "B", "'", ",", "\n">>
\* '\t3 "C",\n'
NexusDoubleQuoted ==
    <<"\t", "3", " ", "\"", "C", "\"", ",", "\n">>
\* '\t;\n'
NexusEnd ==
    <<"\t", ";", "\n">>
\* 'tree TREE1 = (1,2);\n'
NexusTree ==
    <<"t", "r", "e", "e", " ", "T", "R", "E", "E", "1", " ", "=", " ", "(", "1", ",", "2", ")", ";", "\n">>
\* 'Dimensions ntax=2;\n'
NexusDimensions ==
    <<"D", "i", "m", "e", "n", "s", "i", "o", "n", "s", " ", "n", "t", "a", "x", "=", "2", ";", "\n">>
\* 'junk\n'
NexusJunk ==
    <<"j", "u", "n", "k", "\n">>

\* The lines a source file is made of; a file is a sequence of positions in Lines.
Lines ==
    <<NewickComment, NewickDated, NewickPrefixed, NewickTwoDated, NewickUnclosed,
      NewickBadDate,
      NexusTranslate, NexusUnquoted, NexusSingleQuoted, NexusDoubleQuoted, NexusEnd,
      NexusTree, NexusDimensions, NexusJunk>>

NewickLineIds == 1..6
NexusLineIds == 7..14

FilesOf(ids) == UNION {[1..n -> ids] : n \in 0..MaxLines}

\* ---------------------------------------------------- the loaders' defaults

\* date_fmt = "%Y-%m-%d"
DateFmt ==
    <<"%", "Y", "-", "%", "m", "-", "%", "d">>

\* variable_date = True
VariableDate == TRUE

\* re.search(tip_regex, n) for tip_regex = "\|([0-9]+\-[0-9]+\-[0-9]+)":
\* group(1) of the leftmost match, <<>> when there is none.
TipRegexSearch(n) ==
    LET Hit(i) ==
            /\ n[i] = "|"
            /\ LET a == RunEnd(n, i + 1, Digits)
               IN  /\ a >= i + 1
                   /\ a + 1 <= Len(n)
                   /\ n[a + 1] = "-"
                   /\ LET b == RunEnd(n, a + 2, Digits)
                      IN  /\ b >= a + 2
                          /\ b + 1 <= Len(n)
                          /\ n[b + 1] = "-"
                          /\ RunEnd(n, b + 2, Digits) >= b + 2
        hits == {i \in 1..Len(n) : Hit(i)}
    IN  IF hits = {} THEN <<>>
        ELSE LET i == SetMin(hits)
                 a == RunEnd(n, i + 1, Digits)
                 b == RunEnd(n, a + 2, Digits)
             IN  SubSeq(n, i + 1, RunEnd(n, b + 2, Digits))

\* re.search(tree_string_regex, s) is not None, for the default
\* tree_string_regex = "tree [A-Za-z\_]+([0-9]+)".
TreeRegexHit(s) ==
    \E i \in 1..Len(s) :
        /\ i + 4 <= Len(s)
        /\ SubSeq(s, i, i + 4) = <<"t", "r", "e", "e", " ">>
        /\ LET a == RunEnd(s, i + 5, UpperLetters \cup LowerLetters \cup {"_"})
           IN  a >= i + 5 /\ a + 1 <= Len(s) /\ s[a + 1] \in Digits

\* re.search("dimensions ntax=([0-9]+);", s): group(1), <<>> when there is no match.
DimensionsSearch(s) ==
    LET pat == <<"d", "i", "m", "e", "n", "s", "i", "o", "n", "s", " ", "n", "t", "a", "x", "=">>
        Hit(i) ==
            /\ i + Len(pat) - 1 <= Len(s)
            /\ SubSeq(s, i, i + Len(pat) - 1) = pat
            /\ LET a == RunEnd(s, i + Len(pat), Digits)
               IN  a >= i + Len(pat) /\ a + 1 <= Len(s) /\ s[a + 1] = ";"
        hits == {i \in 1..Len(s) : Hit(i)}
    IN  IF hits = {} THEN <<>>
        ELSE LET i == SetMin(hits)
             IN  SubSeq(s, i + Len(pat), RunEnd(s, i + Len(pat), Digits))

\* The character class [A-Za-z\-\_\/\.'0-9 \|?] of the translate-line pattern.
TipNameClass ==
    UpperLetters \cup LowerLetters \cup Digits \cup {"-", "_", "/", ".", "'", " ", "|", "?"}

NoMatch == [hit |-> FALSE, g1 |-> <<>>, g2 |-> <<>>]

\* re.search("([0-9]+) ([A-Za-z\-\_\/\.'0-9 \|?]+)", l): both groups of the
\* leftmost match, each group greedy.
TranslateSearch(l) ==
    LET Hit(i) ==
            /\ l[i] \in Digits
            /\ LET a == RunEnd(l, i, Digits)
               IN  /\ a + 2 <= Len(l)
                   /\ l[a + 1] = " "
                   /\ l[a + 2] \in TipNameClass
        hits == {i \in 1..Len(l) : Hit(i)}
    IN  IF hits = {} THEN NoMatch
        ELSE LET i == SetMin(hits)
                 a == RunEnd(l, i, Digits)
             IN  [hit |-> TRUE, g1 |-> SubSeq(l, i, a),
                  g2 |-> SubSeq(l, a + 2, RunEnd(l, a + 2, TipNameClass))]

\* ------------------------------------------------------------- tree engine
\* The tree engine (baltic/tree.py) is described by the specification only.

NoTree == [kind |-> "none", src |-> <<>>, names |-> <<>>, tipMap |-> <<>>]

NewickStructure == {"(", ")", ",", ":", ";", "[", "]"}

\* The tip tokens of a Newick string, in order of first encounter.
TipNames(s) ==
    LET starts == {i \in 2..Len(s) : s[i] \notin NewickStructure /\ s[i - 1] \in {"(", ","}}
        Nth(k)  == CHOOSE p \in starts : Cardinality({q \in starts : q < p}) = k - 1
        End(p)  == SetMax({j \in p..Len(s) : \A x \in p..j : s[x] \notin NewickStructure})
    IN  [k \in 1..Cardinality(starts) |-> SubSeq(s, Nth(k), End(Nth(k)))]

\* make_tree(s): a structural parse error on mismatched parentheses or a missing
\* terminating semicolon; otherwise a tree that remembers the text it was built
\* from and the names of its tips (its external objects).
make_tree(s) ==
    LET opens  == Cardinality({i \in 1..Len(s) : s[i] = "("})
        closes == Cardinality({i \in 1..Len(s) : s[i] = ")"})
    IN  IF s = <<>> \/ s[Len(s)] # ";" \/ opens # closes
        THEN [kind |-> "error", src |-> s, names |-> <<>>, tipMap |-> <<>>]
        ELSE [kind |-> "tree", src |-> s, names |-> TipNames(s), tipMap |-> <<>>]

\* Tree.sort_branches(): "traverses tree, sorts branches, draws tree".
SortBranchesPasses == <<"traverse", "sort", "draw">>

\* Tree.rename_tips(table): every tip whose name is a key takes the mapped name.
rename_tips(names, table) ==
    [i \in 1..Len(names) |->
        IF names[i] \in DOMAIN table THEN table[names[i]] ELSE names[i]]

\* ------------------------------------------- tip dates (both text loaders)

\* The tip_dates list: decimal_date of group(1) for every external object whose
\* name the tip pattern matches, in registry order.
TipDates(names) ==
    LET found == SelectSeq([i \in 1..Len(names) |-> TipRegexSearch(names[i])],
                           LAMBDA g : g # <<>>)
    IN  [i \in 1..Len(found) |-> decimal_date(found[i], DateFmt, VariableDate)]

\* a <= b for two decimal years.
DecLeq(a, b) == (a.y * a.d + a.n) * b.d <= (b.y * b.d + b.n) * a.d

\* min(tip_dates)
LowestTip(dates) ==
    dates[CHOOSE i \in 1..Len(dates) : \A j \in 1..Len(dates) : DecLeq(dates[i], dates[j])]

\* max(tip_dates)
HighestTip(dates) ==
    dates[CHOOSE i \in 1..Len(dates) : \A j \in 1..Len(dates) : DecLeq(dates[j], dates[i])]

\* The assertion on tip_dates and the call of set_absolute_time: the outcome is
\* the exception raised, or "none" and the value handed to set_absolute_time.
CalibrationOf(dates) ==
    IF \E i \in 1..Len(dates) : dates[i].kind # "num"
    THEN [err |-> (dates[CHOOSE i \in 1..Len(dates) : dates[i].kind # "num"
                          /\ \A j \in 1..(i - 1) : dates[j].kind = "num"]).kind,
          value |-> NoResult]
    ELSE IF Len(dates) = 0
    THEN [err |-> "AssertionError:tip_dates", value |-> NoResult]
    ELSE [err |-> "none", value |-> HighestTip(dates)]

\* The calibration block shared by load_newick and load_nexus.
Calibration(names) == CalibrationOf(TipDates(names))

\* ------------------------------------------------------------ load_newick

\* l = line.strip("\n") for the line at position i of the file.
LineAt(i) == Strip(Lines[file[i]], "\n")

Fail(e) == pc' = "failed" /\ err' = e

\* A loop that stops looking for a tree once it has one.
NewickTreeFirstOnly(cur, l) ==
    IF cur.kind = "tree" THEN cur
    ELSE IF IndexOf(l, "(") # 0 THEN make_tree(Tail_(l, IndexOf(l, "("))) ELSE cur

\* The body of the for loop of load_newick: what ll is after line l.
NewickTreeAfterLine(cur, l) ==
    IF IndexOf(l, "(") # 0 THEN make_tree(Tail_(l, IndexOf(l, "("))) ELSE cur

NewickOpen ==
    /\ fn = "load_newick" /\ pc = "open"
    /\ handle' = IF by_path THEN "open" ELSE handle
    /\ pc' = "scan"
    /\ UNCHANGED <<fn, err, file, by_path, absolute_time, idx, ll, tip_flag, tip_num,
                   tips, reported, calibrated, jsonVars, dateVars, sort_branches, passes>>

NewickScanLine ==
    /\ fn = "load_newick" /\ pc = "scan" /\ idx < Len(file)
    /\ LET l == LineAt(idx + 1)
           t == NewickTreeAfterLine(ll, l)
       IN  IF t.kind = "error"
           THEN /\ Fail("ParseError")
                /\ UNCHANGED <<idx, ll, passes>>
           ELSE /\ ll' = t
                /\ passes' = IF IndexOf(l, "(") # 0 THEN Append(passes, "construct") ELSE passes
                /\ idx' = idx + 1
                /\ UNCHANGED <<pc, err>>
    /\ UNCHANGED <<fn, file, by_path, absolute_time, handle, tip_flag, tip_num,
                   tips, reported, calibrated, jsonVars, dateVars, sort_branches>>

\* End of the loop, the assertion on ll, then ll.traverse_tree().
NewickTraverse ==
    /\ fn = "load_newick" /\ pc = "scan" /\ idx = Len(file)
    /\ IF ll.kind = "none"
       THEN Fail("AssertionError:tree") /\ UNCHANGED passes
       ELSE /\ passes' = Append(passes, "traverse")
            /\ pc' = IF sort_branches THEN "sort"
                     ELSE IF absolute_time THEN "calibrate" ELSE "close"
            /\ UNCHANGED err
    /\ UNCHANGED <<fn, textVars, jsonVars, dateVars, sort_branches>>

NewickSort ==
    /\ fn = "load_newick" /\ pc = "sort"
    /\ passes' = passes \o SortBranchesPasses
    /\ pc' = IF absolute_time THEN "calibrate" ELSE "close"
    /\ UNCHANGED <<fn, err, textVars, jsonVars, dateVars, sort_branches>>

NewickCalibrate ==
    /\ fn = "load_newick" /\ pc = "calibrate"
    /\ LET c == Calibration(ll.names)
       IN  IF c.err # "none"
           THEN Fail(c.err) /\ UNCHANGED <<calibrated, passes>>
           ELSE /\ calibrated' = c.value
                /\ passes' = Append(passes, "calibrate")
                /\ pc' = "close"
                /\ UNCHANGED err
    /\ UNCHANGED <<fn, file, by_path, absolute_time, handle, idx, ll, tip_flag, tip_num,
                   tips, reported, jsonVars, dateVars, sort_branches>>

\* if isinstance(tree_path, str): handle.close(); return ll
NewickClose ==
    /\ fn = "load_newick" /\ pc = "close"
    /\ handle' = IF by_path THEN "closed" ELSE handle
    /\ pc' = "done"
    /\ UNCHANGED <<fn, err, file, by_path, absolute_time, idx, ll, tip_flag, tip_num,
                   tips, reported, calibrated, jsonVars, dateVars, sort_branches, passes>>

\* ------------------------------------------------------------- load_nexus

\* tips[g1] = g2.strip('"').strip("'")
TipsAfterLine(table, l) ==
    LET m == TranslateSearch(l)
    IN  IF m.hit
        THEN [k \in DOMAIN table \cup {m.g1} |->
                 IF k = m.g1 THEN Strip(Strip(m.g2, "\""), "'") ELSE table[k]]
        ELSE table

\* The line is printed as "tip not captured by regex".
NotCaptured(l) == ~TranslateSearch(l).hit /\ IndexOf(l, ";") = 0

\* tip_flag after line l.
TipFlagAfterLine(flag, l) ==
    IF IndexOf(l, ";") # 0 THEN FALSE
    ELSE IF Contains(LowerStr(l), <<"t", "r", "a", "n", "s", "l", "a", "t", "e">>) THEN TRUE
    ELSE flag

NexusOpen ==
    /\ fn = "load_nexus" /\ pc = "open"
    /\ handle' = IF by_path THEN "open" ELSE handle
    /\ pc' = "scan"
    /\ UNCHANGED <<fn, err, file, by_path, absolute_time, idx, ll, tip_flag, tip_num,
                   tips, reported, calibrated, jsonVars, dateVars, sort_branches, passes>>

NexusScanLine ==
    /\ fn = "load_nexus" /\ pc = "scan" /\ idx < Len(file)
    /\ LET l    == LineAt(idx + 1)
           dims == DimensionsSearch(LowerStr(l))
           isT  == TreeRegexHit(LowerStr(l))
           t    == IF isT /\ IndexOf(l, "(") # 0
                   THEN make_tree(Tail_(l, IndexOf(l, "("))) ELSE ll
       IN  IF isT /\ IndexOf(l, "(") = 0
           THEN /\ Fail("ValueError")
                /\ UNCHANGED <<idx, ll, passes, tip_flag, tip_num, tips, reported>>
           ELSE IF t.kind = "error"
           THEN /\ Fail("ParseError")
                /\ UNCHANGED <<idx, ll, passes, tip_flag, tip_num, tips, reported>>
           ELSE /\ tip_num' = IF dims # <<>> THEN ToInt(dims) ELSE tip_num
                /\ ll' = t
                /\ passes' = IF isT THEN Append(passes, "construct") ELSE passes
                /\ tips' = IF tip_flag THEN TipsAfterLine(tips, l) ELSE tips
                /\ reported' = IF tip_flag /\ NotCaptured(l)
                               THEN Append(reported, idx + 1) ELSE reported
                /\ tip_flag' = TipFlagAfterLine(tip_flag, l)
                /\ idx' = idx + 1
                /\ UNCHANGED <<pc, err>>
    /\ UNCHANGED <<fn, file, by_path, absolute_time, handle, calibrated,
                   jsonVars, dateVars, sort_branches>>

NexusAfterSort ==
    IF DOMAIN tips # {} THEN "rename"
    ELSE IF absolute_time THEN "calibrate" ELSE "close"

\* End of the loop, the assertion on ll, then ll.traverse_tree().
NexusTraverse ==
    /\ fn = "load_nexus" /\ pc = "scan" /\ idx = Len(file)
    /\ IF ll.kind = "none"
       THEN Fail("AssertionError:tree") /\ UNCHANGED passes
       ELSE /\ passes' = Append(passes, "traverse")
            /\ pc' = IF sort_branches THEN "sort" ELSE NexusAfterSort
            /\ UNCHANGED err
    /\ UNCHANGED <<fn, textVars, jsonVars, dateVars, sort_branches>>

NexusSort ==
    /\ fn = "load_nexus" /\ pc = "sort"
    /\ passes' = passes \o SortBranchesPasses
    /\ pc' = NexusAfterSort
    /\ UNCHANGED <<fn, err, textVars, jsonVars, dateVars, sort_branches>>

\* ll.rename_tips(tips); ll.tipMap = tips
NexusRename ==
    /\ fn = "load_nexus" /\ pc = "rename"
    /\ ll' = [ll EXCEPT !.names = rename_tips(ll.names, tips), !.tipMap = tips]
    /\ pc' = IF absolute_time THEN "calibrate" ELSE "close"
    /\ UNCHANGED <<fn, err, file, by_path, absolute_time, handle, idx, tip_flag, tip_num,
                   tips, reported, calibrated, jsonVars, dateVars, sort_branches, passes>>

NexusCalibrate ==
    /\ fn = "load_nexus" /\ pc = "calibrate"
    /\ LET c == Calibration(ll.names)
       IN  IF c.err # "none"
           THEN Fail(c.err) /\ UNCHANGED <<calibrated, passes>>
           ELSE /\ calibrated' = c.value
                /\ passes' = Append(passes, "calibrate")
                /\ pc' = "close"
                /\ UNCHANGED err
    /\ UNCHANGED <<fn, file, by_path, absolute_time, handle, idx, ll, tip_flag, tip_num,
                   tips, reported, jsonVars, dateVars, sort_branches>>

NexusClose ==
    /\ fn = "load_nexus" /\ pc = "close"
    /\ handle' = IF by_path THEN "closed" ELSE handle
    /\ pc' = "done"
    /\ UNCHANGED <<fn, err, file, by_path, absolute_time, idx, ll, tip_flag, tip_num,
                   tips, reported, calibrated, jsonVars, dateVars, sort_branches, passes>>

\* ------------------------------------------------- the date entry points

\* '2020-07-02', '2020-07', '2020', '2021-01-01', '2020/07', '2020-13-01', '20200702'
SampleDates ==
    { <<"2", "0", "2", "0", "-", "0", "7", "-", "0", "2">>,
      <<"2", "0", "2", "0", "-", "0", "7">>,
      <<"2", "0", "2", "0">>,
      <<"2", "0", "2", "1", "-", "0", "1", "-", "0", "1">>,
      <<"2", "0", "2", "0", "/", "0", "7">>,
      <<"2", "0", "2", "0", "-", "1", "3", "-", "0", "1">>,
      <<"2", "0", "2", "0", "0", "7", "0", "2">> }

\* '%Y-%m-%d', '%Y/%m/%d', '%Y-%m', '%Y', '%Y%m%d', ''
SampleFormats ==
    { DateFmt,
      <<"%", "Y", "/", "%", "m", "/", "%", "d">>,
      <<"%", "Y", "-", "%", "m">>,
      <<"%", "Y">>,
      <<"%", "Y", "%", "m", "%", "d">>,
      <<>> }

DecimalDateCall ==
    /\ fn = "decimal_date" /\ pc = "call"
    /\ dd_result' = decimal_date(dd_date, dd_fmt, dd_variable)
    /\ pc' = IF dd_result'.kind \in {"num", "str"} THEN "done" ELSE "failed"
    /\ err' = IF dd_result'.kind \in {"num", "str"} THEN "none" ELSE dd_result'.kind
    /\ UNCHANGED <<fn, textVars, jsonVars, dd_date, dd_fmt, dd_variable, cal_result,
                   sort_branches, passes>>

\* calendar_date(decimal_date(D, F), F): the caller feeds the decimal date back.
CalendarDateCall ==
    /\ fn = "decimal_date" /\ pc = "done"
    /\ cal_result' = calendar_date(dd_result, dd_fmt)
    /\ pc' = IF cal_result'.kind = "str" THEN "converted" ELSE "failed"
    /\ err' = IF cal_result'.kind = "str" THEN "none" ELSE cal_result'.kind
    /\ UNCHANGED <<fn, textVars, jsonVars, dd_date, dd_fmt, dd_variable, dd_result,
                   sort_branches, passes>>

\* -------------------------------------------------------------- load_json

\* JSON values, all of one record shape: a number, null, a string (n names it)
\* or a mapping that may carry a "value" and a "confidence" sub-field.
Scalar(t, n) == [t |-> t, n |-> n]
NullScalar == Scalar("null", 0)
Lift(sc) == [t |-> sc.t, n |-> sc.n, hv |-> FALSE, val |-> NullScalar,
             hc |-> FALSE, conf |-> NullScalar]
Num(n) == Lift(Scalar("num", n))
Null == Lift(NullScalar)
Str(n) == Lift(Scalar("str", n))
Dict(hv, val, hc, conf) == [t |-> "dict", n |-> 0, hv |-> hv, val |-> val,
                            hc |-> hc, conf |-> conf]

\* bool(v) of Python.
Truthy(v) ==
    CASE v.t = "num"  -> v.n # 0
      [] v.t = "null" -> FALSE
      [] v.t = "str"  -> TRUE
      [] OTHER        -> v.hv \/ v.hc

\* f with f[k] = v.
Put(f, k, v) == [x \in DOMAIN f \cup {k} |-> IF x = k THEN v ELSE f[x]]

\* Two sample documents: the nodes of "tree" in visitation order (parent 0: the
\* root), and meta.colorings.
Doc1Tree ==
    << [name |-> 1, parent |-> 0, leaf |-> FALSE,
        node_attrs |-> [num_date |-> Dict(TRUE, Scalar("num", 2019), FALSE, NullScalar),
                        div |-> Num(0)],
        branch_attrs |-> [len |-> Num(0), div |-> Num(9)]],
       [name |-> 2, parent |-> 1, leaf |-> TRUE,
        node_attrs |-> [num_date |-> Dict(TRUE, Scalar("num", 2020), TRUE, Scalar("num", 1)),
                        div |-> Num(2)],
        branch_attrs |-> [len |-> Num(2), div |-> Num(9)]],
       [name |-> 3, parent |-> 1, leaf |-> TRUE,
        node_attrs |-> [num_date |-> Dict(TRUE, Scalar("num", 2021), FALSE, NullScalar),
                        div |-> Num(3)],
        branch_attrs |-> [len |-> Num(3)]] >>

Doc2Tree ==
    << [name |-> 1, parent |-> 0, leaf |-> FALSE,
        node_attrs |-> [num_date |-> Num(5), div |-> Num(1)],
        branch_attrs |-> [div |-> Num(7)]],
       [name |-> 2, parent |-> 1, leaf |-> FALSE,
        node_attrs |-> [num_date |-> Num(0), div |-> Num(3)],
        branch_attrs |-> [len |-> Num(2)]],
       [name |-> 3, parent |-> 2, leaf |-> TRUE,
        node_attrs |-> [num_date |-> Null, div |-> Num(4)],
        branch_attrs |-> [len |-> Num(1)]] >>

Doc1Colorings ==
    << [key |-> "region", type |-> "categorical", hasScale |-> TRUE,
        scale |-> << <<"Asia", "#ff0000">>, <<"Europe", "#00ff00">> >>],
       [key |-> "num_date", type |-> "continuous", hasScale |-> FALSE, scale |-> <<>>] >>

Doc2Colorings ==
    << [key |-> "country", type |-> "categorical", hasScale |-> FALSE, scale |-> <<>>],
       [key |-> "host", type |-> "continuous", hasScale |-> TRUE,
        scale |-> << <<"a", "#000000">> >>] >>

Docs == << [tree |-> Doc1Tree, colorings |-> Doc1Colorings],
           [tree |-> Doc2Tree, colorings |-> Doc2Colorings] >>

\* The values a json_translation entry may have: a literal key, a function of the
\* object, or anything else.
StrKey(k) == [kind |-> "str", key |-> k]
Callable == [kind |-> "callable", key |-> ""]
OtherValue == [kind |-> "other", key |-> ""]
MeasureValues == {StrKey("num_date"), StrKey("div"), StrKey("len"), StrKey("nowhere"),
                  Callable, OtherValue}

TranslationAttrs == {"name", "absolute_time", "length", "height"}

\* The order in which `for attr in json_translation` visits the keys.
AttrOrder == <<"name", "absolute_time", "length", "height">>

\* make_tree_json(json_tree, json_translation): one object per JSON node in
\* visitation order; name, node_attrs and branch_attrs are kept in traits; the
\* attributes start as the object model's constructors leave them.
make_tree_json(tree) ==
    [i \in 1..Len(tree) |->
        [index |-> i, parent |-> tree[i].parent, leaf |-> tree[i].leaf,
         traits |-> [name |-> Str(tree[i].name)],
         node_attrs |-> tree[i].node_attrs,
         branch_attrs |-> tree[i].branch_attrs,
         attr |-> [name |-> Null, absolute_time |-> Null, height |-> Null,
                   length |-> IF tree[i].leaf THEN Null ELSE Num(0)]]]

\* assert "name" in json_translation and ("absolute_time" in ... or "length" in ...
\* or "height" in ...)
HasRequiredEntries(t) ==
    "name" \in DOMAIN t
    /\ ("absolute_time" \in DOMAIN t \/ "length" \in DOMAIN t \/ "height" \in DOMAIN t)

\* The second assertion of load_json, on the branch-measure sources.
SingleMeasureKind(t) ==
    \/ ("absolute_time" \in DOMAIN t
        /\ ("length" \notin DOMAIN t \/ "height" \notin DOMAIN t))
    \/ ("absolute_time" \notin DOMAIN t
        /\ ("length" \in DOMAIN t \/ "height" \in DOMAIN t))

\* The order in which `for key in k.traits["node_attrs"]` visits the keys.
NodeAttrOrder == <<"num_date", "div">>

\* The flattening loop over one object's node_attrs.
RECURSIVE FlattenKeys(_, _, _)
FlattenKeys(traits, na, keys) ==
    IF keys = <<>> THEN traits
    ELSE LET key == Head(keys)
             v   == na[key]
             t1  == IF v.t = "dict" /\ v.hv THEN Put(traits, key, Lift(v.val)) ELSE traits
             t2  == IF v.t = "dict" /\ v.hc
                    THEN Put(t1, key \o "_confidence", Lift(v.conf)) ELSE t1
             t3  == IF v.t # "dict" /\ key = "div" THEN Put(traits, "divergence", v) ELSE t2
         IN  FlattenKeys(IF key \in DOMAIN na THEN t3 ELSE traits, na, Tail(keys))

Flatten(o) ==
    [o EXCEPT !.traits =
        FlattenKeys(o.traits, o.node_attrs,
                    SelectSeq(NodeAttrOrder, LAMBDA k : k \in DOMAIN o.node_attrs))]

\* A lookup that consults branch_attrs before node_attrs.
ResolveEntryBranchFirst(o, mv) ==
    IF mv.kind = "str" THEN
        IF mv.key \in DOMAIN o.traits THEN [err |-> "none", value |-> o.traits[mv.key]]
        ELSE IF mv.key \in DOMAIN o.branch_attrs
        THEN [err |-> "none", value |-> o.branch_attrs[mv.key]]
        ELSE IF mv.key \in DOMAIN o.node_attrs
        THEN [err |-> "none", value |-> o.node_attrs[mv.key]]
        ELSE [err |-> "KeyError", value |-> Null]
    ELSE IF mv.kind = "callable" THEN [err |-> "none", value |-> Num(o.index)]
    ELSE [err |-> "AttributeError", value |-> Null]

\* One json_translation entry resolved for one object.
ResolveEntry(o, mv) ==
    IF mv.kind = "str" THEN
        IF mv.key \in DOMAIN o.traits THEN [err |-> "none", value |-> o.traits[mv.key]]
        ELSE IF mv.key \in DOMAIN o.node_attrs
        THEN [err |-> "none", value |-> o.node_attrs[mv.key]]
        ELSE IF mv.key \in DOMAIN o.branch_attrs
        THEN [err |-> "none", value |-> o.branch_attrs[mv.key]]
        ELSE [err |-> "KeyError", value |-> Null]
    ELSE IF mv.kind = "callable" THEN [err |-> "none", value |-> Num(o.index)]
    ELSE [err |-> "AttributeError", value |-> Null]

\* The keys of json_translation in visiting order.
TranslationKeys(t) == SelectSeq(AttrOrder, LAMBDA a : a \in DOMAIN t)

\* The translation loop: every entry for every object, stopping at the first
\* exception.
ResolveAll(objs, t) ==
    LET keys == TranslationKeys(t)
        bad  == {p \in (1..Len(keys)) \X (1..Len(objs)) :
                    ResolveEntry(objs[p[2]], t[keys[p[1]]]).err # "none"}
        first == CHOOSE p \in bad : \A q \in bad :
                    p[1] < q[1] \/ (p[1] = q[1] /\ p[2] <= q[2])
    IN  IF bad # {}
        THEN [err |-> ResolveEntry(objs[first[2]], t[keys[first[1]]]).err, objs |-> objs]
        ELSE [err |-> "none",
              objs |-> [i \in 1..Len(objs) |->
                          [objs[i] EXCEPT !.attr =
                              [a \in DOMAIN objs[i].attr |->
                                  IF a \in DOMAIN t THEN ResolveEntry(objs[i], t[a]).value
                                  ELSE objs[i].attr[a]]]]]

\* k.length = cur_branch - par_branch if cur_branch and par_branch else 0.0
BranchLength(cur, par) ==
    IF Truthy(cur) /\ Truthy(par)
    THEN IF cur.t = "num" /\ par.t = "num"
         THEN [err |-> "none", value |-> Num(cur.n - par.n)]
         ELSE [err |-> "TypeError", value |-> Null]
    ELSE [err |-> "none", value |-> Num(0)]

\* getattr(k.parent, branch_unit): the root's parent is either absent (None) or
\* a placeholder branch of the tree whose attribute is unavailable.
ParentValue(objs, o, unit, rootParent) ==
    IF o.parent # 0 THEN [err |-> "none", value |-> objs[o.parent].attr[unit]]
    ELSE IF rootParent = "absent" THEN [err |-> "AttributeError:NoneType", value |-> Null]
    ELSE [err |-> "none", value |-> Null]

\* The inner loop of the length derivation for one branch unit, from object i on.
RECURSIVE DeriveFrom(_, _, _, _)
DeriveFrom(objs, i, unit, rootParent) ==
    IF i > Len(objs) THEN [err |-> "none", objs |-> objs]
    ELSE LET par == ParentValue(objs, objs[i], unit, rootParent)
             len == BranchLength(objs[i].attr[unit], par.value)
         IN  IF par.err # "none" THEN [err |-> par.err, objs |-> objs]
             ELSE IF len.err # "none" THEN [err |-> len.err, objs |-> objs]
             ELSE DeriveFrom([objs EXCEPT ![i].attr.length = len.value],
                             i + 1, unit, rootParent)

\* for branch_unit in ["height", "absolute_time"]: if branch_unit in json_translation
DeriveUnit(r, unit, t, rootParent) ==
    IF r.err # "none" \/ unit \notin DOMAIN t THEN r
    ELSE DeriveFrom(r.objs, 1, unit, rootParent)

DeriveLengths(objs, t, rootParent) ==
    DeriveUnit(DeriveUnit([err |-> "none", objs |-> objs], "height", t, rootParent),
               "absolute_time", t, rootParent)

\* The colour map built from meta.colorings.
ColourMap(colorings) ==
    LET used == {i \in 1..Len(colorings) :
                    colorings[i].type = "categorical" /\ colorings[i].hasScale}
        keys == {colorings[i].key : i \in used}
        Last(k) == SetMax({i \in used : colorings[i].key = k})
        Cats(sc) == {sc[j][1] : j \in 1..Len(sc)}
    IN  [k \in keys |->
            LET sc == colorings[Last(k)].scale
            IN  [c \in Cats(sc) |-> sc[SetMax({j \in 1..Len(sc) : sc[j][1] = c})][2]]]

JsonCheckTranslation ==
    /\ fn = "load_json" /\ pc = "check"
    /\ IF HasRequiredEntries(jt)
       THEN pc' = "acquire" /\ UNCHANGED err
       ELSE Fail("AssertionError:missing")
    /\ UNCHANGED <<fn, textVars, jsonVars, dateVars, sort_branches, passes>>

\* The document is fetched, read or taken as given, then its tree is constructed.
JsonConstruct ==
    /\ fn = "load_json" /\ pc = "acquire"
    /\ json_src \in {"url", "path", "object"}
    /\ objects' = make_tree_json(Docs[doc].tree)
    /\ passes' = Append(passes, "construct")
    /\ pc' = "check_units"
    /\ UNCHANGED <<fn, err, textVars, jt, json_src, doc, root_parent, cmap, stats,
                   dateVars, sort_branches>>

JsonCheckUnits ==
    /\ fn = "load_json" /\ pc = "check_units"
    /\ IF SingleMeasureKind(jt)
       THEN pc' = "flatten" /\ UNCHANGED err
       ELSE Fail("AssertionError:both")
    /\ UNCHANGED <<fn, textVars, jsonVars, dateVars, sort_branches, passes>>

JsonFlatten ==
    /\ fn = "load_json" /\ pc = "flatten"
    /\ objects' = [i \in 1..Len(objects) |-> Flatten(objects[i])]
    /\ pc' = "resolve"
    /\ UNCHANGED <<fn, err, textVars, jt, json_src, doc, root_parent, cmap, stats,
                   dateVars, sort_branches, passes>>

JsonResolve ==
    /\ fn = "load_json" /\ pc = "resolve"
    /\ LET r == ResolveAll(objects, jt)
       IN  IF r.err # "none"
           THEN Fail(r.err) /\ UNCHANGED objects
           ELSE objects' = r.objs /\ pc' = "derive" /\ UNCHANGED err
    /\ UNCHANGED <<fn, textVars, jt, json_src, doc, root_parent, cmap, stats,
                   dateVars, sort_branches, passes>>

JsonDerive ==
    /\ fn = "load_json" /\ pc = "derive"
    /\ LET r == DeriveLengths(objects, jt, root_parent)
       IN  /\ objects' = r.objs
           /\ IF r.err # "none" THEN Fail(r.err) ELSE pc' = "traverse" /\ UNCHANGED err
    /\ UNCHANGED <<fn, textVars, jt, json_src, doc, root_parent, cmap, stats,
                   dateVars, sort_branches, passes>>

JsonTraverse ==
    /\ fn = "load_json" /\ pc = "traverse"
    /\ passes' = Append(passes, "traverse")
    /\ pc' = "draw"
    /\ UNCHANGED <<fn, err, textVars, jsonVars, dateVars, sort_branches>>

\* A load_json that leaves the explicit draw to the sort pass.
JsonDrawSkipped ==
    /\ fn = "load_json" /\ pc = "draw"
    /\ pc' = IF stats THEN "stats" ELSE IF sort_branches THEN "sort" ELSE "cmap"
    /\ UNCHANGED <<fn, err, textVars, jsonVars, dateVars, sort_branches, passes>>

JsonDraw ==
    /\ fn = "load_json" /\ pc = "draw"
    /\ passes' = Append(passes, "draw")
    /\ pc' = IF stats THEN "stats" ELSE IF sort_branches THEN "sort" ELSE "cmap"
    /\ UNCHANGED <<fn, err, textVars, jsonVars, dateVars, sort_branches>>

JsonStats ==
    /\ fn = "load_json" /\ pc = "stats"
    /\ passes' = Append(passes, "stats")
    /\ pc' = IF sort_branches THEN "sort" ELSE "cmap"
    /\ UNCHANGED <<fn, err, textVars, jsonVars, dateVars, sort_branches>>

JsonSort ==
    /\ fn = "load_json" /\ pc = "sort"
    /\ passes' = passes \o SortBranchesPasses
    /\ pc' = "cmap"
    /\ UNCHANGED <<fn, err, textVars, jsonVars, dateVars, sort_branches>>

JsonCmap ==
    /\ fn = "load_json" /\ pc = "cmap"
    /\ cmap' = ColourMap(Docs[doc].colorings)
    /\ pc' = "done"
    /\ UNCHANGED <<fn, err, textVars, jt, json_src, doc, root_parent, objects, stats,
                   dateVars, sort_branches, passes>>

\* ------------------------------------------------------- the state machine

InitText(f, ids) ==
    /\ fn = f /\ pc = "open" /\ err = "none"
    /\ file \in FilesOf(ids)
    /\ by_path \in BOOLEAN
    /\ absolute_time \in BOOLEAN
    /\ sort_branches \in BOOLEAN
    /\ handle = IF by_path THEN "unopened" ELSE "open"
    /\ stats = FALSE
    /\ jt = <<>> /\ json_src = "object" /\ doc = 1 /\ root_parent = "absent"
    /\ dd_date = <<>> /\ dd_fmt = <<>> /\ dd_variable = FALSE

InitJson ==
    /\ fn = "load_json" /\ pc = "check" /\ err = "none"
    /\ \E keys \in SUBSET TranslationAttrs, mv \in MeasureValues :
           jt = [a \in keys |-> IF a = "name" THEN StrKey("name") ELSE mv]
    /\ json_src \in {"url", "path", "object"}
    /\ doc \in 1..Len(Docs)
    /\ root_parent \in {"absent", "placeholder"}
    /\ sort_branches \in BOOLEAN
    /\ stats \in BOOLEAN
    /\ file = <<>> /\ by_path = FALSE /\ absolute_time = FALSE /\ handle = "unopened"
    /\ dd_date = <<>> /\ dd_fmt = <<>> /\ dd_variable = FALSE

InitDates ==
    /\ fn = "decimal_date" /\ pc = "call" /\ err = "none"
    /\ dd_date \in SampleDates
    /\ dd_fmt \in SampleFormats
    /\ dd_variable \in BOOLEAN
    /\ file = <<>> /\ by_path = FALSE /\ absolute_time = FALSE /\ handle = "unopened"
    /\ sort_branches = FALSE /\ stats = FALSE
    /\ jt = <<>> /\ json_src = "object" /\ doc = 1 /\ root_parent = "absent"

Init ==
    /\ \/ InitText("load_newick", NewickLineIds)
       \/ InitText("load_nexus", NexusLineIds)
       \/ InitJson
       \/ InitDates
    /\ idx = 0 /\ ll = NoTree /\ tip_flag = FALSE /\ tip_num = 0 /\ tips = <<>>
    /\ reported = <<>> /\ passes = <<>> /\ calibrated = NoResult
    /\ objects = <<>> /\ cmap = <<>>
    /\ dd_result = NoResult /\ cal_result = NoResult

Next ==
    \/ NewickOpen \/ NewickScanLine \/ NewickTraverse \/ NewickSort
    \/ NewickCalibrate \/ NewickClose
    \/ NexusOpen \/ NexusScanLine \/ NexusTraverse \/ NexusSort \/ NexusRename
    \/ NexusCalibrate \/ NexusClose
    \/ JsonCheckTranslation \/ JsonConstruct \/ JsonCheckUnits \/ JsonFlatten
    \/ JsonResolve \/ JsonDerive \/ JsonTraverse \/ JsonDraw \/ JsonStats
    \/ JsonSort \/ JsonCmap
    \/ DecimalDateCall \/ CalendarDateCall

Spec == Init /\ [][Next]_vars

\* ------------------------------------------------------------- properties

TextLoaders == {"load_newick", "load_nexus"}

\* The positions among the first n lines of the file that contain "(".
ParenLines(n) == {i \in 1..n : IndexOf(LineAt(i), "(") # 0}

\* The text of line i from its first "(" to its end.
FromParen(i) == Tail_(LineAt(i), IndexOf(LineAt(i), "("))

Count(seq, x) == Cardinality({i \in 1..Len(seq) : seq[i] = x})

IsPrefix(a, b) == Len(a) <= Len(b) /\ SubSeq(b, 1, Len(a)) = a

\* C1 (as amended): load_newick hands every line containing "(" to make_tree, from
\* that "(" to the end of the line, in file order, and the tree it keeps is the
\* one built from the LAST such line read so far; a parse failure happens on a
\* line containing "(".
C1_LastTreeLineWins ==
    fn = "load_newick" =>
        /\ ParenLines(idx) = {} => ll = NoTree
        /\ ParenLines(idx) # {} =>
               /\ ll.kind = "tree"
               /\ ll.src = FromParen(SetMax(ParenLines(idx)))
        /\ Count(passes, "construct") = Cardinality(ParenLines(idx))
        /\ err = "ParseError" => (idx + 1) \in ParenLines(Len(file))

\* A finished load of a file with two tree lines whose text differs: the tree
\* returned is the one of the second.
C1_Witness ==
    /\ fn = "load_newick" /\ pc = "done"
    /\ Cardinality(ParenLines(Len(file))) >= 2
    /\ FromParen(SetMin(ParenLines(Len(file)))) # FromParen(SetMax(ParenLines(Len(file))))
    /\ ll.src = FromParen(SetMax(ParenLines(Len(file))))

\* C1 (as stated): the tree returned is built from the FIRST line containing "("
\* and no later line is parsed.
C1_FirstTreeLineWins ==
    (fn = "load_newick" /\ pc \notin {"open", "scan", "failed"}) =>
        /\ ll.src = FromParen(SetMin(ParenLines(Len(file))))
        /\ Count(passes, "construct") = 1

\* What the claim C2 calls a valid translation mapping.
NameAndOneMeasureKind(keys) ==
    /\ "name" \in keys
    /\ \/ "absolute_time" \in keys /\ "length" \notin keys /\ "height" \notin keys
       \/ "absolute_time" \notin keys /\ ("length" \in keys \/ "height" \in keys)

\* C2 (as stated): load_json fails with an invalid-configuration error when "name"
\* is missing, when no measure key is present and when absolute_time comes with
\* length or height, and passes validation otherwise.
C2_TranslationValidation ==
    fn = "load_json" =>
        /\ err \in {"AssertionError:missing", "AssertionError:both"}
               => ~NameAndOneMeasureKind(DOMAIN jt)
        /\ pc \in {"flatten", "resolve", "derive", "traverse", "draw", "stats", "sort",
                   "cmap", "done"}
               => NameAndOneMeasureKind(DOMAIN jt)

\* The branch unit whose derivation is the last to write length.
ActiveUnit == IF "absolute_time" \in DOMAIN jt THEN "absolute_time" ELSE "height"

\* C3 (as stated): once the lengths are derived, every object's length is its
\* value of the active unit minus its parent's whenever both are numbers (0
\* included), and 0.0 when one side is unavailable, as at the root.
C3_DerivedLength ==
    (/\ fn = "load_json"
     /\ pc \in {"traverse", "draw", "stats", "sort", "cmap", "done"}
     /\ ("height" \in DOMAIN jt \/ "absolute_time" \in DOMAIN jt)) =>
        \A i \in 1..Len(objects) :
            LET cur == objects[i].attr[ActiveUnit]
                p   == objects[i].parent
            IN  IF p # 0 /\ cur.t = "num" /\ objects[p].attr[ActiveUnit].t = "num"
                THEN objects[i].attr.length = Num(cur.n - objects[p].attr[ActiveUnit].n)
                ELSE objects[i].attr.length = Num(0)

\* C4 (as stated): a source the loader opened itself is closed whenever the call
\* ends, by a return or by a failure; a caller-supplied source is never closed.
C4_SourceClosedWhenCallEnds ==
    fn \in TextLoaders =>
        /\ (by_path /\ pc \in {"done", "failed"}) => handle = "closed"
        /\ ~by_path => handle = "open"

\* The external objects whose name the tip-date pattern matches.
MatchedTips == {i \in 1..Len(ll.names) : TipRegexSearch(ll.names[i]) # <<>>}

TipDecimalDate(i) == decimal_date(TipRegexSearch(ll.names[i]), DateFmt, VariableDate)

\* C5: with calibration requested, load_newick and load_nexus fail with the
\* not-found error on tip dates exactly when no external object's name matches the
\* pattern, and then set_absolute_time is not called and nothing is returned;
\* otherwise the value handed to set_absolute_time is the date of a matching tip
\* that no matching tip's date exceeds. Without the request nothing is calibrated.
C5_CalibratesWithLatestTipDate ==
    fn \in TextLoaders =>
        /\ err = "AssertionError:tip_dates" =>
               /\ absolute_time /\ MatchedTips = {} /\ pc = "failed"
               /\ calibrated = NoResult /\ Count(passes, "calibrate") = 0
        /\ (absolute_time /\ pc = "failed" /\ Count(passes, "traverse") > 0) =>
               (MatchedTips = {} <=> err = "AssertionError:tip_dates")
        /\ (absolute_time /\ pc \in {"close", "done"}) =>
               /\ MatchedTips # {}
               /\ Count(passes, "calibrate") = 1
               /\ \E i \in MatchedTips : calibrated = TipDecimalDate(i)
               /\ \A i \in MatchedTips : DecLeq(TipDecimalDate(i), calibrated)
        /\ ~absolute_time => calibrated = NoResult /\ Count(passes, "calibrate") = 0

\* A finished, calibrated load of a tree with two dated tips, the later date on
\* the second.
C5_Witness ==
    /\ fn \in TextLoaders /\ pc = "done" /\ absolute_time
    /\ Cardinality(MatchedTips) >= 2
    /\ calibrated # TipDecimalDate(SetMin(MatchedTips))
    /\ calibrated = TipDecimalDate(SetMax(MatchedTips))

\* Line i lies inside a translate block: a line containing "translate" precedes
\* it and no line from that one up to i - 1 contains a semicolon.
InTranslateBlock(i) ==
    \E j \in 1..(i - 1) :
        /\ Contains(LowerStr(LineAt(j)), <<"t", "r", "a", "n", "s", "l", "a", "t", "e">>)
        /\ \A k \in j..(i - 1) : IndexOf(LineAt(k), ";") = 0

\* The "<id> <name>" shape of a translate line: an integer id, a blank, and a
\* name that may be quoted, with an optional trailing comma.
PairShape(l) ==
    LET body == Strip(l, "\t")
        a    == RunEnd(body, 1, Digits)
    IN  /\ a >= 1
        /\ a + 2 <= Len(body)
        /\ body[a + 1] = " "
        /\ IndexOf(l, ";") = 0
        /\ Strip(Strip(Strip(Tail_(body, a + 2), ","), "\""), "'") # <<>>

PairId(l) == SubSeq(Strip(l, "\t"), 1, RunEnd(Strip(l, "\t"), 1, Digits))

PairName(l) ==
    Strip(Strip(Strip(Tail_(Strip(l, "\t"), RunEnd(Strip(l, "\t"), 1, Digits) + 2),
                      ","), "\""), "'")

\* C6 (as stated): a line of a translate block that holds an integer id followed
\* by a tip name, unquoted, single-quoted or double-quoted, adds id -> name (quotes
\* stripped) to the translation table.
C6_TranslateLinesCaptured ==
    (fn = "load_nexus" /\ pc = "scan" /\ idx >= 1
     /\ InTranslateBlock(idx) /\ PairShape(LineAt(idx))) =>
        /\ PairId(LineAt(idx)) \in DOMAIN tips
        /\ tips[PairId(LineAt(idx))] = PairName(LineAt(idx))

\* The value the claim C7 expects a translation entry to take for an object.
FirstScopeValue(o, mv) ==
    IF mv.kind = "callable" THEN Num(o.index)
    ELSE IF mv.key \in DOMAIN o.traits THEN o.traits[mv.key]
    ELSE IF mv.key \in DOMAIN o.node_attrs THEN o.node_attrs[mv.key]
    ELSE o.branch_attrs[mv.key]

InSomeScope(o, key) ==
    key \in DOMAIN o.traits \cup DOMAIN o.node_attrs \cup DOMAIN o.branch_attrs

\* C7: when the translation loop of load_json completes, every mapped attribute of
\* every object holds the value of the first of traits, node_attrs, branch_attrs
\* that has the literal key, or the function's result; the loop fails with
\* KeyError exactly on a literal key that is in none of the three scopes and with
\* AttributeError exactly on a value that is neither a string nor a function.
C7_TranslationLookupOrder ==
    fn = "load_json" =>
        /\ pc = "derive" =>
               \A a \in DOMAIN jt : \A i \in 1..Len(objects) :
                   /\ jt[a].kind \in {"str", "callable"}
                   /\ jt[a].kind = "str" => InSomeScope(objects[i], jt[a].key)
                   /\ objects[i].attr[a] = FirstScopeValue(objects[i], jt[a])
        /\ err = "KeyError" =>
               \E a \in DOMAIN jt : \E i \in 1..Len(objects) :
                   jt[a].kind = "str" /\ ~InSomeScope(objects[i], jt[a].key)
        /\ err = "AttributeError" => \E a \in DOMAIN jt : jt[a].kind = "other"

\* The translation loop has completed for a literal key that an object carries in
\* node_attrs and in branch_attrs with different values.
C7_Witness ==
    /\ fn = "load_json" /\ pc = "derive"
    /\ \E a \in DOMAIN jt : \E i \in 1..Len(objects) :
           /\ jt[a].kind = "str"
           /\ jt[a].key \notin DOMAIN objects[i].traits
           /\ jt[a].key \in DOMAIN objects[i].node_attrs
           /\ jt[a].key \in DOMAIN objects[i].branch_attrs
           /\ objects[i].node_attrs[jt[a].key] # objects[i].branch_attrs[jt[a].key]
           /\ objects[i].attr[a] = objects[i].node_attrs[jt[a].key]

\* The date is written with the first k fields of the format.
LeadingFieldsOf(date, fmt) ==
    LET p == DelimiterPos(fmt)
    IN  IF p = 0 THEN Strptime(date, fmt).ok
        ELSE \E k \in 1..Len(Split(fmt, fmt[p])) :
                Strptime(date, Join(fmt[p], SubSeq(Split(fmt, fmt[p]), 1, k))).ok

\* C8 (as stated): with variable set, a date that gives only the leading fields
\* of the format is parsed successfully, whatever the format, one without a
\* delimiter included.
C8_VariableDateParses ==
    (/\ fn = "decimal_date" /\ pc # "call"
     /\ dd_variable /\ dd_fmt # <<>>
     /\ LeadingFieldsOf(dd_date, dd_fmt)) =>
        dd_result.kind = "num"

\* C9 (as stated): calendar_date applied to decimal_date(D, F) with the same F
\* returns D.
C9_RoundTrip ==
    (fn = "decimal_date" /\ ~dd_variable /\ dd_result.kind = "num") =>
        /\ pc # "failed"
        /\ pc = "converted" => cal_result = StrResult(dd_date)

\* passes without its leading "construct" entries.
AfterConstruct == SubSeq(passes, Count(passes, "construct") + 1, Len(passes))

\* The passes a complete run makes after construction.
ExpectedPasses ==
    IF fn \in TextLoaders
    THEN <<"traverse">>
         \o (IF sort_branches THEN <<"traverse", "sort", "draw">> ELSE <<>>)
         \o (IF absolute_time THEN <<"calibrate">> ELSE <<>>)
    ELSE <<"traverse", "draw">>
         \o (IF stats THEN <<"stats">> ELSE <<>>)
         \o (IF sort_branches THEN <<"traverse", "sort", "draw">> ELSE <<>>)

\* C10 (as amended): every loader constructs first and traverses before any other
\* pass. load_newick and load_nexus then sort (re-traversing, sorting and drawing)
\* only if sorting is requested and calibrate last if requested, so they draw
\* only as part of the sort; load_json draws right after the traversal, then
\* computes stats if requested and sorts last if requested, and never calibrates.
C10_PassOrder ==
    fn \in TextLoaders \cup {"load_json"} =>
        /\ \A i \in 1..Count(passes, "construct") : passes[i] = "construct"
        /\ AfterConstruct # <<>> => Count(passes, "construct") >= 1
        /\ IsPrefix(AfterConstruct, ExpectedPasses)
        /\ pc = "done" => AfterConstruct = ExpectedPasses

\* A finished load_json with stats and sorting requested.
C10_Witness ==
    /\ fn = "load_json" /\ pc = "done" /\ stats /\ sort_branches
    /\ passes = <<"construct", "traverse", "draw", "stats", "traverse", "sort", "draw">>

\* C10 (as stated): in every loader a draw runs only once a sort has settled the
\* branch order, and sort, draw and calibration only after a traversal.
C10_DrawOnlyAfterSort ==
    \A i \in 1..Len(passes) :
        /\ passes[i] = "draw" => \E j \in 1..(i - 1) : passes[j] = "sort"
        /\ passes[i] \in {"sort", "draw", "calibrate"} =>
               \E j \in 1..(i - 1) : passes[j] = "traverse"

====
